---- MODULE Spec2Model ----
(***************************************************************************)
(* The Agent of cthun-agent (lib/src/agent.cc): construction of the module *)
(* registry (internal modules, then the external modules found in the      *)
(* modules directory), start(), and the dispatch of one inbound request by *)
(* cncRequestCallback.                                                     *)
(***************************************************************************)
EXTENDS Integers, Sequences, FiniteSets, TLC

VARIABLES
    pc,            \* position of the main thread in Agent::Agent / Agent::start
    dir,           \* the modules directory as the directory_iterator yields it
    is_dir,        \* fs::is_directory(dir_path)
    f,             \* the directory_iterator of loadExternalModulesFrom
    modules_,      \* Agent::modules_ : module name -> module
    loadLog,       \* LOG_ERROR / LOG_WARNING lines of loadExternalModulesFrom
    steps,         \* the calls the constructor and start() have made, in
                   \* order: each is recorded when it returns or throws,
                   \* monitorConnection when it is entered
    thrown,        \* the exception that left the constructor or start()
    callback,      \* the callback registered on the connector, if any
    inbound,       \* the message the connector is about to hand to the callback
    request,       \* the ParsedChunks of the latest cncRequestCallback call
    registry,      \* accesses to modules_ made by that call
    performed,     \* performRequest invocations made by that call
    raised,        \* the exception thrown inside the outer try of that call
    sent,          \* the argument lists handed to connector_.send by that call
    sendThrew,     \* what each of those calls of send did
    errorLog,      \* LOG_ERROR lines of that call
    escaped        \* the exception that left that call

ctorVars == <<dir, is_dir, f, modules_, loadLog>>
startVars == <<steps, thrown>>
cbVars == <<inbound, request, registry, performed, raised, sent, sendThrew,
           errorLog, escaped>>
vars == <<pc, dir, is_dir, f, modules_, loadLog, steps, thrown, callback,
          inbound, request,
          registry, performed, raised, sent, sendThrew, errorLog, escaped>>

----------------------------------------------------------------------------
(* Bounds *)

MaxFiles == 2      \* entries in the modules directory
MaxDebug == 2      \* debug chunks of a request

(* Program constants *)

DEFAULT_MSG_TIMEOUT_SEC == 10
CTHUN_RESPONSE_SCHEMA_NAME == "CTHUN_RESPONSE_SCHEMA_NAME"

----------------------------------------------------------------------------
(* Value domains *)

InternalNames == {"echo", "inventory", "ping", "status"}
ExternalNames == {"echo", "ext"}        \* names an external module may declare
ExternalActions == {"run"}              \* actions an external module declares
RequestedModules == {"echo", "ext", "nope", ""}
RequestedActions == {"echo", "run", ""}
Senders == {"cth://controller/a", "cth://controller/b"}
DebugTexts == {"hop", "relay"}
ContentTypes == {"Json", "Binary"}
Results == {[msg |-> "hi"], [status |-> "done"]}
NoResult == [void |-> "void"]

NoException == [type |-> "none", what |-> ""]
Exception(t, w) == [type |-> t, what |-> w]

SeqsUpTo(S, n) == UNION {[1..k -> S] : k \in 0..n}

(* What constructing an ExternalModule from one directory entry does.      *)
LoadFailures == {"module_error", "std_exception", "unknown"}
DirEntries ==
    {[is_directory |-> TRUE, ctor |-> "none", module_name |-> ""]}
    \cup {[is_directory |-> FALSE, ctor |-> "ok", module_name |-> n] :
            n \in ExternalNames}
    \cup {[is_directory |-> FALSE, ctor |-> k, module_name |-> ""] :
            k \in LoadFailures}

(* ParsedChunks: the data chunk holds module and action only when it is a  *)
(* JSON chunk, which the connector has validated against the schema of     *)
(* getCncRequestSchema.                                                    *)
NoData == [module |-> "-", action |-> "-"]
Chunks ==
    {[has_data |-> FALSE, data_type |-> t, data |-> NoData] : t \in ContentTypes}
    \cup {[has_data |-> TRUE, data_type |-> "Binary", data |-> NoData]}
    \cup {[has_data |-> TRUE, data_type |-> "Json",
           data |-> [module |-> m, action |-> a]] :
            m \in RequestedModules, a \in RequestedActions}
Requests ==
    {[sender |-> s, has_data |-> c.has_data, data_type |-> c.data_type,
      data |-> c.data, debug |-> d] :
        s \in Senders, c \in Chunks, d \in SeqsUpTo(DebugTexts, MaxDebug)}
NoRequest ==
    [sender |-> "", has_data |-> FALSE, data_type |-> "none", data |-> NoData,
     debug |-> <<>>]

(* A string constraint of the request schema accepts every string.         *)
getCncRequestSchema ==
    [module |-> [type |-> "String", required |-> TRUE],
     action |-> [type |-> "String", required |-> TRUE],
     params |-> [type |-> "Object", required |-> FALSE]]

----------------------------------------------------------------------------
(* Construction *)

Module(kind, file, actions) == [kind |-> kind, file |-> file, actions |-> actions]

Put(m, k, v) == [n \in DOMAIN m \cup {k} |-> IF n = k THEN v ELSE m[n]]

EmptyRegistry == [n \in {} |-> Module("internal", 0, {})]

(* loadInternalModules that leaves the status module out. *)
loadInternalModulesNoStatus(m) ==
    Put(Put(Put(m, "echo", Module("internal", 0, {"echo"})),
            "inventory", Module("internal", 0, {"inventory"})),
        "ping", Module("internal", 0, {"ping"}))

loadInternalModules(m) ==
    Put(Put(Put(Put(m, "echo", Module("internal", 0, {"echo"})),
                "inventory", Module("internal", 0, {"inventory"})),
            "ping", Module("internal", 0, {"ping"})),
        "status", Module("internal", 0, {"status"}))

(* LoadEntry that inserts the module only when the name is still free. *)
LoadEntryKeepFirst(m, i, e) ==
    IF e.is_directory THEN m
    ELSE IF e.ctor = "ok" /\ e.module_name \notin DOMAIN m
         THEN Put(m, e.module_name, Module("external", i, ExternalActions))
         ELSE m

(* LoadEntry that does not let a file take the name of a built-in module. *)
LoadEntryProtectingBuiltins(m, i, e) ==
    IF e.is_directory THEN m
    ELSE IF e.ctor = "ok" /\ e.module_name \notin InternalNames
         THEN Put(m, e.module_name, Module("external", i, ExternalActions))
         ELSE m

(* One iteration of the for loop of loadExternalModulesFrom on entry i.    *)
LoadEntry(m, i, e) ==
    IF e.is_directory THEN m
    ELSE IF e.ctor = "ok"
         THEN Put(m, e.module_name, Module("external", i, ExternalActions))
         ELSE m

LoadEntryLog(log, i, e) ==
    IF ~e.is_directory /\ e.ctor # "ok"
    THEN Append(log, [file |-> i, caught |-> e.ctor])
    ELSE log

(* fatal_error thrown for the failure e of the connector. *)
Step(c, e) == [call |-> c, threw |-> e]
NoFailure == [type |-> "none", what |-> "", cause |-> "none"]
FatalError(text, e) == [type |-> "fatal_error", what |-> text, cause |-> e]

ConfigErrorText == "invalid certificate"

Init ==
    /\ pc = "new"
    /\ is_dir \in BOOLEAN
    /\ dir \in SeqsUpTo(DirEntries, MaxFiles)
    /\ (~is_dir => dir = <<>>)
    /\ f = 0
    /\ modules_ = EmptyRegistry
    /\ loadLog = <<>>
    /\ steps = <<>>
    /\ thrown = NoFailure
    /\ callback = "none"
    /\ inbound = NoRequest
    /\ request = NoRequest
    /\ registry = <<>>
    /\ performed = <<>>
    /\ raised = NoException
    /\ sent = <<>>
    /\ sendThrew = <<>>
    /\ errorLog = <<>>
    /\ escaped = NoException

(* connector_ { server_url, AGENT_CLIENT_TYPE, ca, crt, key } *)
ConstructConnector ==
    /\ pc = "new"
    /\ \E ok \in BOOLEAN :
          /\ steps' = Append(steps, Step("connector_",
                                 IF ok THEN "none" ELSE "connection_config_error"))
          /\ pc' = IF ok THEN "loadInternalModules" ELSE "fatal_error"
          /\ thrown' = IF ok THEN thrown
                       ELSE FatalError("failed to configure the agent: "
                                          \o ConfigErrorText,
                                       "connection_config_error")
    /\ UNCHANGED <<ctorVars, callback, cbVars>>

LoadInternalModules ==
    /\ pc = "loadInternalModules"
    /\ modules_' = loadInternalModules(modules_)
    /\ pc' = "loadExternalModulesFrom"
    /\ steps' = Append(steps, Step("loadInternalModules", "none"))
    /\ UNCHANGED <<dir, is_dir, f, loadLog, thrown, callback, cbVars>>

LoadExternalNotADirectory ==
    /\ pc = "loadExternalModulesFrom"
    /\ ~is_dir
    /\ loadLog' = Append(loadLog, [file |-> 0, caught |-> "no_directory"])
    /\ pc' = "logLoadedModules"
    /\ steps' = Append(steps, Step("loadExternalModulesFrom", "none"))
    /\ UNCHANGED <<dir, is_dir, f, modules_, thrown, callback, cbVars>>

(* LoadExternalNext where a failed construction ends the scan. *)
LoadExternalNextAborting ==
    /\ pc = "loadExternalModulesFrom"
    /\ is_dir
    /\ f < Len(dir)
    /\ f' = IF ~dir[f + 1].is_directory /\ dir[f + 1].ctor # "ok"
            THEN Len(dir) ELSE f + 1
    /\ modules_' = LoadEntry(modules_, f + 1, dir[f + 1])
    /\ loadLog' = LoadEntryLog(loadLog, f + 1, dir[f + 1])
    /\ UNCHANGED <<pc, dir, is_dir, startVars, callback, cbVars>>

LoadExternalNext ==
    /\ pc = "loadExternalModulesFrom"
    /\ is_dir
    /\ f < Len(dir)
    /\ f' = f + 1
    /\ modules_' = LoadEntry(modules_, f + 1, dir[f + 1])
    /\ loadLog' = LoadEntryLog(loadLog, f + 1, dir[f + 1])
    /\ UNCHANGED <<pc, dir, is_dir, startVars, callback, cbVars>>

LoadExternalEnd ==
    /\ pc = "loadExternalModulesFrom"
    /\ is_dir
    /\ f = Len(dir)
    /\ pc' = "logLoadedModules"
    /\ steps' = Append(steps, Step("loadExternalModulesFrom", "none"))
    /\ UNCHANGED <<ctorVars, thrown, callback, cbVars>>

LogLoadedModules ==
    /\ pc = "logLoadedModules"
    /\ pc' = "constructed"
    /\ steps' = Append(steps, Step("logLoadedModules", "none"))
    /\ UNCHANGED <<ctorVars, thrown, callback, cbVars>>

----------------------------------------------------------------------------
(* start() *)

(* start() that goes on to connect() without registering the callback. *)
RegisterMessageCallbackSkipped ==
    /\ pc = "constructed"
    /\ callback' = callback
    /\ pc' = "connect"
    /\ steps' = steps
    /\ UNCHANGED <<ctorVars, thrown, cbVars>>

RegisterMessageCallback ==
    /\ pc = "constructed"
    /\ callback' = "cncRequestCallback"
    /\ pc' = "connect"
    /\ steps' = Append(steps, Step("registerMessageCallback", "none"))
    /\ UNCHANGED <<ctorVars, thrown, cbVars>>

ConnectOutcomes == {"ok", "connection_config_error", "connection_fatal_error"}

(* The fatal_error start() throws for the failure o of connect().          *)
ConnectFailure(o) ==
    IF o = "connection_config_error"
    THEN FatalError("failed to configure the underlying communicationslayer", o)
    ELSE FatalError("failed to connect", o)

(* Connect where a failure of connect() is logged and start() goes on. *)
ConnectIgnoringFailure ==
    /\ pc = "connect"
    /\ \E o \in ConnectOutcomes :
          /\ pc' = "monitorConnection"
          /\ steps' = steps \o <<Step("connect", IF o = "ok" THEN "none" ELSE o),
                                  Step("monitorConnection", "none")>>
          /\ thrown' = thrown
    /\ UNCHANGED <<ctorVars, callback, cbVars>>

(* connect(), and when it returns the call of monitorConnection().         *)
Connect ==
    /\ pc = "connect"
    /\ \E o \in ConnectOutcomes :
          /\ pc' = IF o = "ok" THEN "monitorConnection" ELSE "fatal_error"
          /\ steps' = IF o = "ok"
                      THEN steps \o <<Step("connect", "none"),
                                      Step("monitorConnection", "none")>>
                      ELSE Append(steps, Step("connect", o))
          /\ thrown' = IF o = "ok" THEN thrown ELSE ConnectFailure(o)
    /\ UNCHANGED <<ctorVars, callback, cbVars>>

(* monitorConnection() blocks until it throws connection_fatal_error.      *)
MonitorConnectionFails ==
    /\ pc = "monitorConnection"
    /\ pc' = "fatal_error"
    /\ thrown' = FatalError("failed to reconnect", "connection_fatal_error")
    /\ steps' = [steps EXCEPT ![Len(steps)].threw = "connection_fatal_error"]
    /\ UNCHANGED <<ctorVars, callback, cbVars>>

----------------------------------------------------------------------------
(* Module::performRequest, as the dispatcher sees it.  The behaviour h of  *)
(* the handler is an input: a result, or the failure it raises.            *)

RequestErrors ==
    {"request_validation_error", "ActionNotFound", "ActionTimeout",
     "ActionExecutionError"}
HandlerFailures == {"ActionTimeout", "ActionExecutionError", "std_exception"}
HandlerBehaviours ==
    {[throws |-> "none", value |-> r] : r \in Results}
    \cup {[throws |-> t, value |-> NoResult] : t \in HandlerFailures}

FailureText(t) ==
    CASE t = "ActionTimeout" -> "action timed out"
      [] t = "ActionExecutionError" -> "action failed"
      [] OTHER -> "unexpected failure"

(* Invocation that leaves the subprocess alone when the timeout elapses. *)
InvocationNotKilling(module, h) ==
    IF module.kind # "external" THEN <<>>
    ELSE IF h.throws = "ActionTimeout"
         THEN <<[at_deadline |-> "running", on_return |-> "running"]>>
         ELSE <<[at_deadline |-> "exited", on_return |-> "exited"]>>

(* The subprocesses one invocation of an action spawns: none for a module  *)
(* that runs in the agent, one for an external module.  ActionTimeout is   *)
(* the failure of an invocation whose subprocess is still running when the *)
(* timeout elapses; it is then terminated by force.                        *)
Invocation(module, h) ==
    IF module.kind # "external" THEN <<>>
    ELSE IF h.throws = "ActionTimeout"
         THEN <<[at_deadline |-> "running", on_return |-> "killed"]>>
         ELSE <<[at_deadline |-> "exited", on_return |-> "exited"]>>

performRequest(module, action_name, h) ==
    IF action_name \notin module.actions
    THEN [thrown |-> Exception("ActionNotFound", "unknown action"),
          value |-> NoResult, subprocess |-> <<>>]
    ELSE IF h.throws = "none"
         THEN [thrown |-> NoException, value |-> h.value,
               subprocess |-> Invocation(module, h)]
         ELSE [thrown |-> Exception(h.throws, FailureText(h.throws)),
               value |-> NoResult, subprocess |-> Invocation(module, h)]

(* catch (request_error& e): the request errors are the validation error   *)
(* and the errors of an action.                                            *)
IsRequestError(e) == e.type \in RequestErrors

(* Only an external module runs its action under a timeout.                *)
CanBehave(module, h) == h.throws = "ActionTimeout" => module.kind = "external"

----------------------------------------------------------------------------
(* cncRequestCallback *)

(* InspectEnvelope without the check of the content type. *)
InspectEnvelopeAnyFormat(req) ==
    IF ~req.has_data
    THEN Exception("request_validation_error", "no data")
    ELSE NoException

(* InspectEnvelope that looks at the content type first. *)
InspectEnvelopeFormatFirst(req) ==
    IF req.data_type # "Json"
    THEN Exception("request_validation_error", "data is not in JSON format")
    ELSE IF ~req.has_data
         THEN Exception("request_validation_error", "no data")
         ELSE NoException

InspectEnvelope(req) ==
    IF ~req.has_data
    THEN Exception("request_validation_error", "no data")
    ELSE IF req.data_type # "Json"
         THEN Exception("request_validation_error", "data is not in JSON format")
         ELSE NoException

(* UnknownModule with a message that leaves the name out. *)
UnknownModuleUnnamed(module_name) ==
    Exception("request_validation_error", "unknown module: ")

UnknownModule(module_name) ==
    Exception("request_validation_error", "unknown module: " \o module_name)

(* InspectData with a check that module and action are not empty. *)
InspectDataNonEmpty(modules, data) ==
    IF data.module = "" \/ data.action = ""
    THEN Exception("request_validation_error", "empty module or action")
    ELSE IF data.module \notin DOMAIN modules
         THEN UnknownModule(data.module)
         ELSE NoException

(* The module and action strings are read as they are; only the lookup of  *)
(* the module name can reject the data.                                    *)
InspectData(modules, data) ==
    IF data.module \notin DOMAIN modules
    THEN UnknownModule(data.module)
    ELSE NoException

(* The outer try block up to the call of send.                             *)
TryBlock(modules, req, h) ==
    LET envelope == InspectEnvelope(req)
        module_name == req.data.module
        action_name == req.data.action
    IN  IF envelope # NoException
        THEN [raised |-> envelope, registry |-> <<>>, performed |-> <<>>,
              data_json |-> NoResult]
        ELSE IF InspectData(modules, req.data) # NoException
        THEN [raised |-> InspectData(modules, req.data),
              registry |-> <<"find">>, performed |-> <<>>,
              data_json |-> NoResult]
        ELSE LET module_ptr == modules[module_name]
                 r == performRequest(module_ptr, action_name, h)
             IN  [raised |-> r.thrown, registry |-> <<"find", "at">>,
                  performed |-> <<[module |-> module_name,
                                   kind |-> module_ptr.kind,
                                   file |-> module_ptr.file,
                                   subprocess |-> r.subprocess,
                                   action |-> action_name,
                                   thrown |-> r.thrown,
                                   returned |-> r.value]>>,
                  data_json |-> r.value]

(* WrapDebug that keeps the first debug chunk only. *)
WrapDebugFirst(debug) ==
    [i \in 1..(IF Len(debug) > 1 THEN 1 ELSE Len(debug)) |->
        [debug_data |-> debug[i]]]

WrapDebug(debug) == [i \in 1..Len(debug) |-> [debug_data |-> debug[i]]]

(* SuccessResponse that sends a fresh container instead of data_json. *)
SuccessResponseEmpty(req, data_json) ==
    [recipients |-> <<req.sender>>, schema |-> CTHUN_RESPONSE_SCHEMA_NAME,
     timeout |-> DEFAULT_MSG_TIMEOUT_SEC, payload |-> NoResult,
     debug |-> WrapDebug(req.debug)]

SuccessResponse(req, data_json) ==
    [recipients |-> <<req.sender>>, schema |-> CTHUN_RESPONSE_SCHEMA_NAME,
     timeout |-> DEFAULT_MSG_TIMEOUT_SEC, payload |-> data_json,
     debug |-> WrapDebug(req.debug)]

(* ErrorResponse that reports the kind of the error instead of e.what(). *)
ErrorResponseKind(req, e) ==
    [recipients |-> <<req.sender>>, schema |-> CTHUN_RESPONSE_SCHEMA_NAME,
     timeout |-> DEFAULT_MSG_TIMEOUT_SEC, payload |-> [error |-> e.type],
     debug |-> <<>>]

ErrorResponse(req, e) ==
    [recipients |-> <<req.sender>>, schema |-> CTHUN_RESPONSE_SCHEMA_NAME,
     timeout |-> DEFAULT_MSG_TIMEOUT_SEC, payload |-> [error |-> e.what],
     debug |-> <<>>]

CaughtByCallback(e) == IsRequestError(e)

(* SendCalls where a failed send of the result is followed by the send of  *)
(* an error response.                                                      *)
SendCallsRetrying(req, t, s) ==
    IF t.raised = NoException
    THEN IF s = "connection_error"
         THEN <<SuccessResponse(req, t.data_json),
                ErrorResponse(req, Exception("connection_error", "send failed"))>>
         ELSE <<SuccessResponse(req, t.data_json)>>
    ELSE IF CaughtByCallback(t.raised)
         THEN <<ErrorResponse(req, t.raised)>>
         ELSE <<>>

(* The calls of connector_.send; s is what the call does.                  *)
SendCalls(req, t, s) ==
    IF t.raised = NoException
    THEN <<SuccessResponse(req, t.data_json)>>
    ELSE IF CaughtByCallback(t.raised)
         THEN <<ErrorResponse(req, t.raised)>>
         ELSE <<>>

ErrorLines(t, s) ==
    IF t.raised = NoException
    THEN IF s = "connection_error" THEN <<"Failed to reply">> ELSE <<>>
    ELSE IF CaughtByCallback(t.raised)
         THEN <<"Failed to process message">>
              \o (IF s = "connection_error"
                  THEN <<"Failed send an error response">> ELSE <<>>)
         ELSE <<>>

Escaping(t) ==
    IF t.raised # NoException /\ ~CaughtByCallback(t.raised)
    THEN t.raised ELSE NoException

SendOutcomes == {"ok", "connection_error"}

Connected == pc = "monitorConnection" /\ callback = "cncRequestCallback"

(* The connector has parsed a message of the registered schema.            *)
Receive(req) ==
    /\ Connected
    /\ inbound = NoRequest
    /\ request = NoRequest
    /\ inbound' = req
    /\ UNCHANGED <<pc, ctorVars, startVars, callback, request, registry, performed,
                   raised, sent, sendThrew, errorLog, escaped>>

CallbackRuns(h, s) ==
    /\ Connected
    /\ inbound # NoRequest
    /\ (inbound.has_data /\ inbound.data_type = "Json"
          /\ inbound.data.module \in DOMAIN modules_)
        => CanBehave(modules_[inbound.data.module], h)
    /\ LET t == TryBlock(modules_, inbound, h)
       IN  /\ request' = inbound
           /\ inbound' = NoRequest
           /\ registry' = t.registry
           /\ performed' = t.performed
           /\ raised' = t.raised
           /\ sent' = SendCalls(inbound, t, s)
           /\ sendThrew' = [i \in 1..Len(SendCalls(inbound, t, s)) |-> s]
           /\ errorLog' = ErrorLines(t, s)
           /\ escaped' = Escaping(t)
           /\ \E callerCatches \in BOOLEAN :
                 pc' = IF Escaping(t) # NoException /\ ~callerCatches
                       THEN "terminated" ELSE pc
    /\ UNCHANGED <<dir, is_dir, f, loadLog, startVars, callback>>

(* cncRequestCallback that looks the module up with modules_[module_name]. *)
cncRequestCallbackInserting(h, s) ==
    /\ CallbackRuns(h, s)
    /\ modules_' = IF inbound.has_data /\ inbound.data_type = "Json"
                   THEN Put(modules_, inbound.data.module,
                            IF inbound.data.module \in DOMAIN modules_
                            THEN modules_[inbound.data.module]
                            ELSE Module("null", 0, {}))
                   ELSE modules_

cncRequestCallback(h, s) ==
    /\ CallbackRuns(h, s)
    /\ UNCHANGED modules_

CncRequest ==
    \E h \in HandlerBehaviours, s \in SendOutcomes : cncRequestCallback(h, s)

ReceiveMessage == \E req \in Requests : Receive(req)

(* The callback has returned and the connector waits for the next message. *)
MessageProcessed ==
    /\ Connected
    /\ request # NoRequest
    /\ request' = NoRequest
    /\ registry' = <<>>
    /\ performed' = <<>>
    /\ raised' = NoException
    /\ sent' = <<>>
    /\ sendThrew' = <<>>
    /\ errorLog' = <<>>
    /\ escaped' = NoException
    /\ UNCHANGED <<pc, ctorVars, startVars, callback, inbound>>

----------------------------------------------------------------------------

Next ==
    \/ ConstructConnector
    \/ LoadInternalModules
    \/ LoadExternalNotADirectory
    \/ LoadExternalNext
    \/ LoadExternalEnd
    \/ LogLoadedModules
    \/ RegisterMessageCallback
    \/ Connect
    \/ MonitorConnectionFails
    \/ ReceiveMessage
    \/ CncRequest
    \/ MessageProcessed

Spec == Init /\ [][Next]_vars

----------------------------------------------------------------------------
(* Properties of the dispatch of one request *)

Handled == request # NoRequest
HasJsonData == request.has_data /\ request.data_type = "Json"
IsErrorResponse(call, text) ==
    /\ call.payload = [error |-> text]
    /\ call.recipients = <<request.sender>>

(* C1: every request handed to cncRequestCallback has exactly one response *)
(* handed to send, addressed to the sender of the request, whatever the    *)
(* outcome of validation, lookup, handler and send.                        *)
C1_ExactlyOneResponse ==
    Handled => (Len(sent) = 1 /\ sent[1].recipients = <<request.sender>>)

(* C2: no failure leaves cncRequestCallback: the callback returns normally *)
(* and the agent keeps serving.                                            *)
C2_NoFailureEscapes == escaped = NoException /\ pc # "terminated"

(* C3: a request without a data section, or whose data section is not      *)
(* JSON, gets a validation error response and no performRequest is called. *)
C3_BadEnvelopeRejected ==
    (Handled /\ ~HasJsonData) =>
        /\ performed = <<>>
        /\ raised.type = "request_validation_error"
        /\ Len(sent) = 1
        /\ IsErrorResponse(sent[1], IF request.has_data
                                    THEN "data is not in JSON format"
                                    ELSE "no data")

C3_Witness ==
    /\ Handled
    /\ request.has_data
    /\ request.data_type = "Binary"
    /\ Len(sent) = 1
    /\ performed = <<>>

(* C4: a request whose module name is not a key of the registry gets the   *)
(* error "unknown module: <name>", no performRequest is called and the     *)
(* registry is accessed by the failed lookup only.                         *)
C4_UnknownModuleRejected ==
    (Handled /\ HasJsonData /\ request.data.module \notin DOMAIN modules_) =>
        /\ Len(sent) = 1
        /\ IsErrorResponse(sent[1], "unknown module: " \o request.data.module)
        /\ performed = <<>>
        /\ registry = <<"find">>

C4_Witness ==
    /\ Handled
    /\ HasJsonData
    /\ request.data.module = "nope"
    /\ Len(sent) = 1
    /\ sent[1].payload = [error |-> "unknown module: nope"]

(* C5 as stated: a request with an empty module or an empty action is      *)
(* rejected by the dispatcher with a validation error and no module's      *)
(* performRequest is called.                                               *)
C5_EmptyNamesRejected ==
    (Handled /\ HasJsonData
        /\ (request.data.module = "" \/ request.data.action = "")) =>
        /\ performed = <<>>
        /\ raised.type = "request_validation_error"
        /\ Len(sent) = 1
        /\ DOMAIN sent[1].payload = {"error"}

(* C5 amended: the dispatcher does not check emptiness.  An empty module   *)
(* name is rejected only as a name that is no key of the registry, with    *)
(* "unknown module: "; an empty action for a registered module is handed   *)
(* to that module's performRequest as it is.                               *)
C5_EmptyNamesLookedUp ==
    (Handled /\ HasJsonData) =>
        /\ (request.data.module = "" /\ "" \notin DOMAIN modules_) =>
              /\ performed = <<>>
              /\ raised = Exception("request_validation_error",
                                    "unknown module: ")
              /\ Len(sent) = 1
              /\ IsErrorResponse(sent[1], "unknown module: ")
        /\ (request.data.action = "" /\ request.data.module \in DOMAIN modules_) =>
              /\ Len(performed) = 1
              /\ performed[1].module = request.data.module
              /\ performed[1].action = ""

C5_Witness ==
    /\ Handled
    /\ HasJsonData
    /\ request.data.module = "echo"
    /\ request.data.action = ""
    /\ Len(performed) = 1
    /\ performed[1].action = ""

(* C6: when the request has JSON data, names a registered module and that  *)
(* module's performRequest returns a value, send is handed exactly that    *)
(* value and the recipient list holding only the sender of the request.    *)
C6_ResultIsSent ==
    (Handled /\ HasJsonData /\ request.data.module \in DOMAIN modules_
        /\ Len(performed) = 1 /\ performed[1].thrown = NoException) =>
        /\ performed[1].file = modules_[request.data.module].file
        /\ Len(sent) = 1
        /\ sent[1].payload = performed[1].returned
        /\ sent[1].recipients = <<request.sender>>

C6_Witness ==
    /\ Handled
    /\ HasJsonData
    /\ request.data = [module |-> "echo", action |-> "echo"]
    /\ Len(sent) = 1
    /\ sent[1].payload = [msg |-> "hi"]

(* C7: when validation fails or performRequest fails with a request error, *)
(* the only payload sent is {error: <message of the failure>}.             *)
C7_ErrorPayloadOnly ==
    (Handled /\ raised.type \in RequestErrors) =>
        /\ Len(sent) = 1
        /\ sent[1].payload = [error |-> raised.what]
        /\ raised.type # "request_validation_error" =>
              /\ Len(performed) = 1
              /\ performed[1].thrown = raised
              /\ performed[1].returned \notin Results

C7_Witness ==
    /\ Handled
    /\ raised.type = "ActionExecutionError"
    /\ Len(sent) = 1
    /\ sent[1].payload = [error |-> "action failed"]

(* C8: send is called at most once per request; a failed send is only      *)
(* logged: no second send of the result, no error response after a failed  *)
(* send of the result.                                                     *)
C8_NoRetry ==
    /\ Len(sent) <= 1
    /\ (Handled /\ sendThrew = <<"connection_error">>) =>
          /\ escaped = NoException
          /\ raised = NoException =>
                /\ errorLog = <<"Failed to reply">>
                /\ sent[1].payload = performed[1].returned
          /\ raised # NoException =>
                /\ errorLog = <<"Failed to process message",
                                "Failed send an error response">>
                /\ sent[1].payload = [error |-> raised.what]

C8_Witness ==
    /\ Handled
    /\ raised = NoException
    /\ sendThrew = <<"connection_error">>
    /\ Len(sent) = 1
    /\ errorLog = <<"Failed to reply">>

(* C9: once the constructor has returned, no step of start() and no        *)
(* cncRequestCallback call changes the registry.                           *)
AfterConstruction ==
    pc \in {"constructed", "connect", "monitorConnection", "terminated"}

C9_RegistryReadOnly == [][AfterConstruction => modules_' = modules_]_vars

C9_Witness ==
    /\ Handled
    /\ HasJsonData
    /\ request.data.module = "nope"
    /\ \E n \in DOMAIN modules_ : modules_[n].kind = "external"

(* C10: loading is best-effort per file.  After the scan every entry has   *)
(* been visited, each failed construction is logged, the constructor has   *)
(* not failed, and the registry holds the built-in names and the names of  *)
(* the files whose construction succeeded, each external entry coming from *)
(* such a file.                                                            *)
LoadedFiles == {i \in 1..Len(dir) : ~dir[i].is_directory /\ dir[i].ctor = "ok"}
FailedFiles == {i \in 1..Len(dir) : ~dir[i].is_directory /\ dir[i].ctor # "ok"}
ScanDone ==
    \/ pc \in {"logLoadedModules", "constructed", "connect",
                "monitorConnection", "terminated"}
    \/ pc = "fatal_error" /\ callback # "none"

C10_BestEffortLoading ==
    /\ (pc = "fatal_error" /\ callback = "none") => modules_ = EmptyRegistry
    /\ (ScanDone /\ is_dir) =>
          /\ f = Len(dir)
          /\ DOMAIN modules_ =
                InternalNames \cup {dir[i].module_name : i \in LoadedFiles}
          /\ \A n \in DOMAIN modules_ :
                modules_[n].kind = "external" =>
                    /\ modules_[n].file \in LoadedFiles
                    /\ dir[modules_[n].file].module_name = n
          /\ \A i \in LoadedFiles :
                /\ modules_[dir[i].module_name].kind = "external"
                /\ modules_[dir[i].module_name].file >= i
          /\ {loadLog[k].file : k \in 1..Len(loadLog)} = FailedFiles
          /\ \A k \in 1..Len(loadLog) :
                loadLog[k].caught = dir[loadLog[k].file].ctor

C10_Witness ==
    /\ pc = "constructed"
    /\ Len(dir) = 2
    /\ dir[1].ctor = "std_exception"
    /\ dir[2].ctor = "ok"
    /\ dir[2].module_name = "ext"
    /\ "ext" \in DOMAIN modules_
    /\ modules_["ext"].file = 2

----------------------------------------------------------------------------
(* Properties of loading, startup and the external modules *)

FilesNamed(n) == {i \in LoadedFiles : dir[i].module_name = n}
Calls == {steps[i].call : i \in 1..Len(steps)}
LastStep == steps[Len(steps)]

(* C11: when two files declare the same module name, the registry holds    *)
(* for that name the module of the file visited later, and a request for   *)
(* the name is performed by that module, never by the earlier one.         *)
C11_LaterFileWins ==
    (ScanDone /\ is_dir) =>
        /\ \A i \in LoadedFiles : \A j \in LoadedFiles :
              (i < j /\ dir[i].module_name = dir[j].module_name) =>
                  /\ modules_[dir[j].module_name].kind = "external"
                  /\ modules_[dir[j].module_name].file >= j
        /\ (Handled /\ Len(performed) = 1) =>
              \A i \in FilesNamed(performed[1].module) :
                  performed[1].file >= i

C11_Witness ==
    /\ Handled
    /\ Len(dir) = 2
    /\ FilesNamed("ext") = {1, 2}
    /\ modules_["ext"].file = 2
    /\ Len(performed) = 1
    /\ performed[1].module = "ext"
    /\ performed[1].file = 2

(* C12: a failure of the connector at construction, in connect() or in     *)
(* monitorConnection() leaves the agent as a fatal_error and is the last   *)
(* call made: after a failed connect() there is no monitorConnection().    *)
C12_StartupFailuresFatal ==
    /\ (pc = "fatal_error") <=> (thrown # NoFailure)
    /\ thrown # NoFailure =>
          /\ thrown.type = "fatal_error"
          /\ thrown.cause = LastStep.threw
    /\ \A i \in 1..Len(steps) :
          steps[i].threw # "none" =>
              /\ i = Len(steps)
              /\ pc = "fatal_error"
              /\ thrown.what =
                    CASE steps[i].call = "connector_" ->
                           "failed to configure the agent: invalid certificate"
                      [] steps[i].call = "connect"
                           /\ steps[i].threw = "connection_config_error" ->
                           "failed to configure the underlying communicationslayer"
                      [] steps[i].call = "connect"
                           /\ steps[i].threw = "connection_fatal_error" ->
                           "failed to connect"
                      [] OTHER -> "failed to reconnect"
              /\ steps[i].call = "connect" => "monitorConnection" \notin Calls

C12_Witness ==
    /\ pc = "fatal_error"
    /\ LastStep = Step("connect", "connection_fatal_error")
    /\ thrown.what = "failed to connect"
    /\ "monitorConnection" \notin Calls

DebugForwarded(call) ==
    /\ Len(call.debug) = Len(request.debug)
    /\ \A i \in 1..Len(request.debug) :
          call.debug[i] = [debug_data |-> request.debug[i]]

C14_DebugAlwaysForwarded ==
    Handled => \A k \in 1..Len(sent) : DebugForwarded(sent[k])

(* C14 amended: a response that carries a result carries the debug entries *)
(* of the request, one {debug_data: <text>} per entry and in order; an     *)
(* error response carries no debug entry.                                  *)
C14_DebugForwardedWithResult ==
    Handled =>
        \A k \in 1..Len(sent) :
            IF raised = NoException
            THEN DebugForwarded(sent[k])
            ELSE sent[k].debug = <<>>

C14_Witness ==
    /\ Handled
    /\ raised = NoException
    /\ request.debug = <<"relay", "hop">>
    /\ Len(sent) = 1
    /\ sent[1].debug = <<[debug_data |-> "relay"], [debug_data |-> "hop"]>>

(* C15: the checks run in the order data present, data format, module      *)
(* lookup, action check of the handler, and the first that fails decides   *)
(* the error; no handler sees the action before the lookup has succeeded.  *)
C15_FirstFailingCheckDecides ==
    Handled =>
        /\ ~request.has_data => raised.what = "no data"
        /\ (request.has_data /\ request.data_type # "Json") =>
              raised.what = "data is not in JSON format"
        /\ (HasJsonData /\ request.data.module \notin DOMAIN modules_) =>
              /\ raised.what = "unknown module: " \o request.data.module
              /\ performed = <<>>
        /\ performed # <<>> =>
              /\ HasJsonData
              /\ registry = <<"find", "at">>
              /\ request.data.module \in DOMAIN modules_
              /\ performed[1].action = request.data.action
        /\ raised.type = "ActionNotFound" =>
              /\ Len(performed) = 1
              /\ request.data.action
                    \notin modules_[request.data.module].actions

C15_Witness ==
    /\ Handled
    /\ ~request.has_data
    /\ request.data_type = "Binary"
    /\ Len(sent) = 1
    /\ sent[1].payload = [error |-> "no data"]

C17_ExternalReplacesBuiltin ==
    /\ f > 0 => "loadInternalModules" \in Calls
    /\ (ScanDone /\ is_dir) =>
          \A n \in InternalNames :
              FilesNamed(n) # {} =>
                  /\ modules_[n].kind = "external"
                  /\ modules_[n].file \in FilesNamed(n)
                  /\ (Handled /\ HasJsonData /\ request.data.module = n) =>
                        /\ Len(performed) = 1
                        /\ performed[1].kind = "external"
                        /\ performed[1].file \in FilesNamed(n)

C17_Witness ==
    /\ Handled
    /\ HasJsonData
    /\ request.data.module = "echo"
    /\ FilesNamed("echo") # {}
    /\ Len(performed) = 1
    /\ performed[1].kind = "external"

(* C18: the calls of construction and start() are made in the order        *)
(* loadInternalModules, loadExternalModulesFrom, registerMessageCallback,  *)
(* connect, monitorConnection; a callback runs only on the complete        *)
(* registry and the callback is registered when connect() is called.       *)
StartupOrder ==
    <<"connector_", "loadInternalModules", "loadExternalModulesFrom",
      "logLoadedModules", "registerMessageCallback", "connect",
      "monitorConnection">>

C18_StartupOrder ==
    /\ Len(steps) <= Len(StartupOrder)
    /\ \A i \in 1..Len(steps) : steps[i].call = StartupOrder[i]
    /\ "connect" \in Calls => callback = "cncRequestCallback"
    /\ (callback # "none") <=> ("registerMessageCallback" \in Calls)
    /\ "loadInternalModules" \notin Calls => (modules_ = EmptyRegistry /\ f = 0)
    /\ (inbound # NoRequest \/ Handled) =>
          /\ {"loadInternalModules", "loadExternalModulesFrom",
               "registerMessageCallback", "connect"} \subseteq Calls
          /\ is_dir => f = Len(dir)
          /\ InternalNames \cup {dir[i].module_name : i \in LoadedFiles}
                = DOMAIN modules_

C18_Witness ==
    /\ Handled
    /\ Len(steps) = Len(StartupOrder)
    /\ LoadedFiles # {}
    /\ pc = "monitorConnection"

====
